---- MODULE Spec2Model ----
(***************************************************************************)
(* A model of the document-intelligence backend: the vector store adapter *)
(* (backend/app/services/vector_db_service.py), the chunker                *)
(* (backend/app/services/document_processor.py), the question analyzer     *)
(* (nlp_service.py), the retrieval orchestrator (rag_service.py), the      *)
(* decision-mode service (decision_mode_service.py), the generator         *)
(* adapter (llm_service.py) and the routes (backend/app/api/routes.py).    *)
(*                                                                         *)
(* Python values are represented as follows.  A str is a TLA+ string, a    *)
(* dict is a function on its keys, a list is a sequence, and an Optional   *)
(* is None or Some(v).  The Chroma collection is a function from record    *)
(* ids to records.                                                         *)
(***************************************************************************)
EXTENDS Integers, Sequences, FiniteSets, TLC

VARIABLES
    settings,    \* the Settings instance, loaded once from the environment
    chroma,      \* how the installed Chroma build treats add() of an existing id
    collection,  \* the "documents" collection: id -> [document, embedding, metadata]
    last,        \* the latest adapter call: its arguments, its outcome, the collection before it
    nOps,        \* the number of adapter calls made so far
    chunker,     \* the locals of a chunk_text call: pc, text, metadata, start, chunk_id, chunks
    rag,         \* the latest RAGService.query call: its arguments, the calls it made, its response
    llm,         \* the locals of a _generate_groq_response call and what the backend answers
    uploads,     \* the uploads directory: filename -> contents of the file
    procs,       \* the upload request each worker is serving, and how far it is
    solo,        \* per tenant, the collection its own calls alone would have made
    hf           \* the global _hf_model, the loads made, and each thread's _get_hf_model call

storeVars == <<chroma, collection, last, nOps>>

routeVars == <<llm, uploads, procs, solo, hf>>

vars ==
    <<settings, chroma, collection, last, nOps, chunker, rag, llm, uploads, procs, solo, hf>>

(***************************************************************************)
(* Python's None and a present value.                                      *)
(***************************************************************************)
None == [some |-> FALSE]

Some(v) == [some |-> TRUE, val |-> v]

----
(***************************************************************************)
(* Bounds of the model.                                                    *)
(***************************************************************************)
MaxChunks == 2

MaxOps == 3

MaxTopK == 2

MaxLen == 5

MaxWindow == 3
MaxUploads == 2

MaxCalls == 3

\* Two tenants and two filenames; "a" with "b_c.txt" and "a_b" with "c.txt"
\* are different (tenant, filename) pairs.
Tenants == {"a", "a_b"}

Filenames == {"c.txt", "b_c.txt"}

\* The content of a document: two versions of every file.
Versions == {1, 2}

\* Embedding vectors: the unit vectors at 0, 90 and 180 degrees, named by
\* their number of quarter turns.
Vectors == {0, 1, 2}

\* The encoder (an external model): a fixed function from texts to vectors.
Encode(text) == (text[1] + text[2]) % 3

----
(***************************************************************************)
(* Dictionaries.                                                           *)
(***************************************************************************)
\* dict.update(other): the keys of other win.
DictUpdate(d, other) ==
    [k \in (DOMAIN d) \cup (DOMAIN other) |->
        IF k \in DOMAIN other THEN other[k] ELSE d[k]]

\* Python truthiness of a str: the empty string is false.
StrTruthy(s) == s # ""

\* Python truthiness of an Optional[str]: None and "" are false.
OptStrTruthy(o) == o.some /\ StrTruthy(o.val)

\* Python truthiness of an Optional[dict]: None and {} are false.
OptDictTruthy(o) == o.some /\ DOMAIN o.val # {}

----
(***************************************************************************)
(* The chunks the upload route hands to store_documents: each chunk of the *)
(* chunker wrapped as {"metadata": chunk}.  The text of chunk i of version *)
(* v of a document is the pair <<v, i>>.                                   *)
(***************************************************************************)
ChunksWithMetadata(filename, version, n, user_id) ==
    [i \in 1..n |->
        [metadata |-> [chunk_id |-> i - 1,
                       text     |-> <<version, i - 1>>,
                       filename |-> filename,
                       user_id  |-> user_id]]]

----
(***************************************************************************)
(* The Chroma collection (an external store; chromadb's documented         *)
(* behaviour).  add() never replaces a record: an id that is already       *)
(* stored is skipped by the builds that ignore duplicates, and makes the   *)
(* whole call raise in the builds that reject them.  Each call is atomic.  *)
(***************************************************************************)
ChromaBuilds == {"ignore_existing", "reject_existing"}

\* collection.add(ids, embeddings, documents, metadatas) -> [raised, coll]
CollectionAdd(coll, build, ids, embeddings, documents, metadatas) ==
    LET idx     == 1..Len(ids)
        dupes   == \E i, j \in idx : i # j /\ ids[i] = ids[j]
        present == {i \in idx : ids[i] \in DOMAIN coll}
        fresh   == {ids[i] : i \in idx \ present}
        At(id)  == CHOOSE i \in idx : ids[i] = id
    IN  IF dupes \/ (build = "reject_existing" /\ present # {})
        THEN [raised |-> TRUE, coll |-> coll]
        ELSE [raised |-> FALSE,
              coll   |-> [id \in (DOMAIN coll) \cup fresh |->
                            IF id \in DOMAIN coll THEN coll[id]
                            ELSE [document  |-> documents[At(id)],
                                  embedding |-> embeddings[At(id)],
                                  metadata  |-> metadatas[At(id)]]]]

\* A where clause matches a record when every key of it equals the record's metadata.
WhereMatches(metadata, where) ==
    \A k \in DOMAIN where : k \in DOMAIN metadata /\ metadata[k] = where[k]

\* collection.get(where=where, include=[]) -> the matching ids
CollectionGet(coll, where) ==
    {id \in DOMAIN coll : WhereMatches(coll[id].metadata, where)}

\* collection.delete(ids=ids)
CollectionDelete(coll, ids) ==
    [id \in (DOMAIN coll) \ ids |-> coll[id]]

\* Cosine distance (hnsw:space = cosine) of two of the model's unit vectors:
\* 1 - cos of the angle between them, which is their number of quarter turns
\* apart: 0 for equal vectors, 1 for orthogonal ones, 2 for opposite ones.
CosineDistance(u, v) == IF u >= v THEN u - v ELSE v - u

\* The rankings of n records of ids, nearest first; records at the same
\* distance come in any order.
RECURSIVE Ranked(_, _, _, _)
Ranked(coll, ids, q, n) ==
    IF n = 0 \/ ids = {} THEN {<<>>}
    ELSE LET nearest == {id \in ids : \A other \in ids :
                            CosineDistance(q, coll[id].embedding)
                                <= CosineDistance(q, coll[other].embedding)}
         IN  UNION {{<<id>> \o r : r \in Ranked(coll, ids \ {id}, q, n - 1)} :
                        id \in nearest}

\* collection.query(query_embeddings=[q], n_results=n, where=where): the
\* possible results, each a sequence of [id, document, metadata, distance].
CollectionQuery(coll, q, n, where) ==
    {[i \in 1..Len(r) |->
        [id       |-> r[i],
         document |-> coll[r[i]].document,
         metadata |-> coll[r[i]].metadata,
         distance |-> CosineDistance(q, coll[r[i]].embedding)]] :
     r \in Ranked(coll, CollectionGet(coll, where), q, n)}

----
(***************************************************************************)
(* Settings (core/config.py): the defaults, which the environment may      *)
(* override.                                                               *)
(***************************************************************************)
CHUNK_SIZE == 1000

CHUNK_OVERLAP == 200

TOP_K_RESULTS == 8

TOP_K_COMPLEX == 12

DefaultSettings ==
    [CHUNK_SIZE    |-> CHUNK_SIZE,
     CHUNK_OVERLAP |-> CHUNK_OVERLAP,
     TOP_K_RESULTS |-> TOP_K_RESULTS,
     TOP_K_COMPLEX |-> TOP_K_COMPLEX]

----
(***************************************************************************)
(* VectorDBService.                                                        *)
(***************************************************************************)
\* f"{user_id}_{filename}_{chunk_id}"
ChunkId(user_id, chunk) ==
    user_id \o "_" \o chunk.metadata.filename \o "_" \o ToString(chunk.metadata.chunk_id)

\* store_documents with a length check that only rejects too few embeddings.
StoreDocuments_OneSidedCheck(coll, build, chunks, embeddings, user_id) ==
    IF Len(chunks) > Len(embeddings)
    THEN [raised |-> TRUE, coll |-> coll]
    ELSE LET idx       == 1..Len(chunks)
             ids       == [i \in idx |-> ChunkId(user_id, chunks[i])]
             documents == [i \in idx |-> chunks[i].metadata.text]
             metadatas == [i \in idx |-> [chunks[i].metadata EXCEPT !.user_id = user_id]]
         IN  CollectionAdd(coll, build, ids, embeddings, documents, metadatas)

\* store_documents(chunks, embeddings, user_id) -> [raised, coll]
StoreDocuments(coll, build, chunks, embeddings, user_id) ==
    IF Len(chunks) # Len(embeddings)
    THEN [raised |-> TRUE, coll |-> coll]
    ELSE LET idx       == 1..Len(chunks)
             ids       == [i \in idx |-> ChunkId(user_id, chunks[i])]
             documents == [i \in idx |-> chunks[i].metadata.text]
             metadatas == [i \in idx |-> [chunks[i].metadata EXCEPT !.user_id = user_id]]
         IN  CollectionAdd(coll, build, ids, embeddings, documents, metadatas)

\* The where clause search() builds: the tenant tag, updated with filter_dict.
SearchWhere(user_id, filter_dict) ==
    IF OptDictTruthy(filter_dict)
    THEN DictUpdate([user_id |-> user_id], filter_dict.val)
    ELSE [user_id |-> user_id]

\* search(query, top_k, user_id, filter_dict) -> the possible formatted
\* results; q is the embedding of the query text.  Chroma's query() returns
\* distances by default, so 'distances' is a key of its results.
Search(coll, conf, q, top_k, user_id, filter_dict) ==
    LET k     == IF top_k.some THEN top_k.val ELSE conf.TOP_K_RESULTS
        where == SearchWhere(user_id, filter_dict)
    IN  {[i \in 1..Len(r) |->
            [id       |-> r[i].id,
             text     |-> r[i].document,
             metadata |-> r[i].metadata,
             distance |-> Some(r[i].distance)]] :
         r \in CollectionQuery(coll, q, k, where)}

\* The where clause delete_documents() builds.
DeleteWhere(user_id, filename) ==
    IF OptStrTruthy(filename)
    THEN [user_id |-> user_id, filename |-> filename.val]
    ELSE [user_id |-> user_id]

\* delete_documents without its try/except: a failure of the store propagates.
DeleteDocuments_NoCatch(coll, user_id, filename, fault) ==
    LET ids == CollectionGet(coll, DeleteWhere(user_id, filename))
    IN  IF fault = "get" THEN [raised |-> TRUE, ret |-> 0, coll |-> coll]
        ELSE IF ids = {} THEN [raised |-> FALSE, ret |-> 0, coll |-> coll]
        ELSE IF fault = "delete" THEN [raised |-> TRUE, ret |-> 0, coll |-> coll]
        ELSE [raised |-> FALSE, ret |-> Cardinality(ids), coll |-> CollectionDelete(coll, ids)]

\* delete_documents(user_id, filename) -> [raised, ret, coll]; fault says
\* which call to the store, if any, raises (get, then delete; the try/except
\* turns either into a return of 0).
DeleteDocuments(coll, user_id, filename, fault) ==
    LET ids == CollectionGet(coll, DeleteWhere(user_id, filename))
    IN  IF fault = "get" THEN [raised |-> FALSE, ret |-> 0, coll |-> coll]
        ELSE IF ids = {} THEN [raised |-> FALSE, ret |-> 0, coll |-> coll]
        ELSE IF fault = "delete" THEN [raised |-> FALSE, ret |-> 0, coll |-> coll]
        ELSE [raised |-> FALSE, ret |-> Cardinality(ids), coll |-> CollectionDelete(coll, ids)]

----
(***************************************************************************)
(* The calls made to the adapter.                                          *)
(***************************************************************************)
NoCall ==
    [op |-> "none", user_id |-> "", chunks |-> <<>>, embeddings |-> <<>>,
     q |-> 0, top_k |-> None, filter_dict |-> None, filename |-> None,
     fault |-> "none", raised |-> FALSE, ret |-> 0, before |-> <<>>]

\* No query in progress.
RagIdle ==
    [op |-> "none", question |-> "", user_id |-> "", query_analysis |-> None,
     searches |-> <<>>, retrieved |-> <<>>, context |-> <<>>, llm_calls |-> <<>>,
     llm_ok |-> TRUE, raised |-> FALSE, response |-> None]

\* No generator call in progress.
LlmIdle ==
    [pc |-> "idle", prompt |-> "", temperature |-> 0, max_tokens |-> 0,
     backend |-> <<>>, i |-> 1, attempts |-> <<>>, last_error |-> None,
     raised |-> FALSE, error |-> None, ret |-> None]

\* The workers that serve upload requests.
Workers == {"w1", "w2"}

\* A worker that serves no request.
ProcIdle == [pc |-> "idle"]

\* Nothing generated, no file uploaded, no request served, no call made.
\* The threads that construct an EmbeddingService.
Threads == {"t1", "t2"}

\* _hf_model = None, no model loaded, no _get_hf_model call in progress.
HfInit ==
    [model |-> None, loads |-> 0, calls |-> 0, returned |-> {},
     pc |-> [t \in Threads |-> "idle"], ret |-> [t \in Threads |-> None]]

RouteInit ==
    /\ llm = LlmIdle
    /\ uploads = <<>>
    /\ procs = [w \in Workers |-> ProcIdle]
    /\ solo = [u \in Tenants |-> <<>>]
    /\ hf = HfInit

\* No call is being served.
Idle == last.op = "none" /\ rag.op = "none"

\* The embeddings the encoder returns for m chunk texts of a version.
EmbeddingLists(version, m) == [i \in 1..m |-> Encode(<<version, i - 1>>)]

\* Every caller of search passes top_k.
TopKArgs == {Some(k) : k \in 1..MaxTopK}

FilterDicts ==
    {None} \cup {Some([filename |-> f]) : f \in Filenames}
           \cup {Some([user_id |-> u]) : u \in Tenants}

FilenameArgs == {None, Some("")} \cup {Some(f) : f \in Filenames}

Faults == {"none", "get", "delete"}

StoreInit ==
    /\ chroma \in ChromaBuilds
    /\ collection = <<>>
    /\ last = NoCall
    /\ nOps = 0

\* A caller calls store_documents.
StoreCall ==
    /\ Idle
    /\ nOps < MaxOps
    /\ \E u \in Tenants, f \in Filenames, v \in Versions, n \in 1..MaxChunks,
          m \in 0..MaxChunks :
        LET chunks     == ChunksWithMetadata(f, v, n, u)
            embeddings == EmbeddingLists(v, m)
            out        == StoreDocuments(collection, chroma, chunks, embeddings, u)
        IN  /\ collection' = out.coll
            /\ last' = [NoCall EXCEPT !.op = "store", !.user_id = u,
                            !.chunks = chunks, !.embeddings = embeddings,
                            !.raised = out.raised, !.before = collection]
    /\ nOps' = nOps + 1
    /\ UNCHANGED <<settings, chroma, chunker, rag, routeVars>>

\* A caller calls search.
SearchCall ==
    /\ Idle
    /\ nOps < MaxOps
    /\ \E u \in Tenants, q \in Vectors, top_k \in TopKArgs, filter_dict \in FilterDicts :
        \E r \in Search(collection, settings, q, top_k, u, filter_dict) :
            last' = [NoCall EXCEPT !.op = "search", !.user_id = u, !.q = q,
                        !.top_k = top_k, !.filter_dict = filter_dict,
                        !.ret = r, !.before = collection]
    /\ nOps' = nOps + 1
    /\ UNCHANGED <<settings, chroma, collection, chunker, rag, routeVars>>

\* A caller calls delete_documents.
DeleteCall ==
    /\ Idle
    /\ nOps < MaxOps
    /\ \E u \in Tenants, filename \in FilenameArgs, fault \in Faults :
        LET out == DeleteDocuments(collection, u, filename, fault)
        IN  /\ collection' = out.coll
            /\ last' = [NoCall EXCEPT !.op = "delete", !.user_id = u,
                            !.filename = filename, !.fault = fault,
                            !.raised = out.raised, !.ret = out.ret,
                            !.before = collection]
    /\ nOps' = nOps + 1
    /\ UNCHANGED <<settings, chroma, chunker, rag, routeVars>>

\* The call returns to its caller; one call is served at a time.
Return ==
    /\ ~Idle
    /\ last' = NoCall
    /\ rag' = RagIdle
    /\ UNCHANGED <<settings, chroma, collection, nOps, chunker, routeVars>>

\* No chunk_text call in progress.
ChunkerIdle ==
    [pc |-> "idle", text |-> <<>>, metadata |-> None, start |-> 0,
     chunk_id |-> 0, chunks |-> <<>>]

Init ==
    /\ settings = DefaultSettings
    /\ StoreInit
    /\ chunker = ChunkerIdle
    /\ rag = RagIdle
    /\ RouteInit

Next == StoreCall \/ SearchCall \/ DeleteCall \/ Return

Spec == Init /\ [][Next]_vars

----
(***************************************************************************)
(* Properties of the vector store adapter.                                 *)
(***************************************************************************)
\* The records of coll tagged with a tenant, and those of one of its files.
TenantIds(coll, user_id) ==
    {id \in DOMAIN coll : coll[id].metadata.user_id = user_id}

FileIds(coll, user_id, filename) ==
    {id \in TenantIds(coll, user_id) : coll[id].metadata.filename = filename}

\* Every record of coll outside ids is in other, unchanged.
SameOutside(coll, other, ids) ==
    \A id \in (DOMAIN coll) \ ids : id \in DOMAIN other /\ other[id] = coll[id]

\* C1: search returns only records whose tenant tag is the requested
\* user_id, whatever filter_dict is (also one that names the user_id key).
C1_SearchOnlyOwnTenant ==
    last.op = "search" =>
        \A i \in 1..Len(last.ret) : last.ret[i].metadata.user_id = last.user_id

\* C2: storing a chunk whose (tenant, filename, chunk_index) is already
\* stored replaces the record: afterwards the id holds the later write's
\* text and vector, and a repeated upload leaves the record count as it was.
C2_RepeatedStoreReplaces ==
    (last.op = "store" /\ Len(last.chunks) = Len(last.embeddings)) =>
        \A i \in 1..Len(last.chunks) :
            LET id  == ChunkId(last.user_id, last.chunks[i])
                key == last.chunks[i].metadata
            IN  (/\ id \in DOMAIN last.before
                 /\ last.before[id].metadata.user_id = last.user_id
                 /\ last.before[id].metadata.filename = key.filename
                 /\ last.before[id].metadata.chunk_id = key.chunk_id)
                => /\ id \in DOMAIN collection
                   /\ collection[id].document = key.text
                   /\ collection[id].embedding = last.embeddings[i]
                   /\ (FileIds(last.before, last.user_id, key.filename)
                            = {ChunkId(last.user_id, last.chunks[j]) : j \in 1..Len(last.chunks)}
                        => Cardinality(DOMAIN collection) = Cardinality(DOMAIN last.before))

\* C3: a delete that the store serves removes all and only the tenant's
\* records (no filename given), or all and only the tenant's records with
\* the given filename (every filename, the empty string too); the other
\* records stay as they were.
C3_DeleteAllAndOnly ==
    (last.op = "delete" /\ last.fault = "none") =>
        LET target == IF last.filename.some
                      THEN FileIds(last.before, last.user_id, last.filename.val)
                      ELSE TenantIds(last.before, last.user_id)
        IN  /\ DOMAIN collection = (DOMAIN last.before) \ target
            /\ SameOutside(last.before, collection, target)

\* C4: delete never raises; it returns the number of records it removed
\* (0 when nothing matches), and when the store fails while resolving the
\* ids or while deleting them it returns 0 and the collection is unchanged.
C4_DeleteNeverRaises ==
    last.op = "delete" =>
        /\ ~last.raised
        /\ DOMAIN collection \subseteq DOMAIN last.before
        /\ last.ret = Cardinality((DOMAIN last.before) \ (DOMAIN collection))
        /\ SameOutside(collection, last.before, {})
        /\ (CollectionGet(last.before, DeleteWhere(last.user_id, last.filename)) = {}
                => last.ret = 0)
        /\ (last.fault # "none" => last.ret = 0 /\ collection = last.before)

\* A delete of stored records during which the store's delete call fails.
C4_Witness ==
    /\ last.op = "delete"
    /\ last.fault = "delete"
    /\ CollectionGet(last.before, DeleteWhere(last.user_id, last.filename)) # {}
    /\ last.ret = 0
    /\ collection = last.before

\* C7: store_documents raises when the numbers of chunks and of embeddings
\* differ, and then writes nothing.
C7_StoreLengthMismatch ==
    (last.op = "store" /\ Len(last.chunks) # Len(last.embeddings)) =>
        last.raised /\ collection = last.before

\* A call with more embeddings than chunks, on a collection that holds records.
C7_Witness ==
    /\ last.op = "store"
    /\ Len(last.embeddings) > Len(last.chunks)
    /\ last.before # <<>>
    /\ last.raised

\* C25: the record id is injective on (tenant, filename, chunk index), also
\* when ids or filenames contain the separator: a chunk that is stored gets
\* the id of a stored record only when that record has the chunk's tenant,
\* filename and chunk index.
C25_ChunkIdInjective ==
    last.op = "store" =>
        \A i \in 1..Len(last.chunks) :
            LET id  == ChunkId(last.user_id, last.chunks[i])
                key == last.chunks[i].metadata
            IN  id \in DOMAIN last.before =>
                    /\ last.before[id].metadata.user_id = last.user_id
                    /\ last.before[id].metadata.filename = key.filename
                    /\ last.before[id].metadata.chunk_id = key.chunk_id

\* C26: after a file is uploaded again under the same tenant and filename,
\* every stored record of that tenant and filename comes from the latest
\* upload, also when the new version has fewer chunks.
C26_ReuploadLeavesOnlyLatest ==
    (/\ last.op = "store"
     /\ ~last.raised
     /\ Len(last.chunks) = Len(last.embeddings)) =>
        LET filename == last.chunks[1].metadata.filename
        IN  \A id \in FileIds(collection, last.user_id, filename) :
                \E i \in 1..Len(last.chunks) :
                    /\ id = ChunkId(last.user_id, last.chunks[i])
                    /\ collection[id].document = last.chunks[i].metadata.text
                    /\ collection[id].embedding = last.embeddings[i]

----
(***************************************************************************)
(* DocumentProcessor.chunk_text, one loop iteration per step.  A text is a *)
(* sequence of characters.                                                 *)
(***************************************************************************)
Alphabet == {"x", "y"}

Texts == UNION {[1..n -> Alphabet] : n \in 0..MaxLen}

\* The window sizes and overlaps the environment may set, overlap < size.
ChunkSettings ==
    {[DefaultSettings EXCEPT !.CHUNK_SIZE = p[1], !.CHUNK_OVERLAP = p[2]] :
        p \in {x \in (1..MaxWindow) \X (0..MaxWindow) : x[2] < x[1]}}

\* The metadata process_document attaches, or none.
MetadataArgs(text) ==
    {None,
     Some([filename |-> "c.txt", user_id |-> "a", file_type |-> ".txt",
           total_chars |-> Len(text)])}

Min(a, b) == IF a <= b THEN a ELSE b

\* text[from:to] for 0 <= from <= to
Slice(text, from, to) == SubSeq(text, from + 1, Min(to, Len(text)))

\* start = end - self.chunk_overlap, without the overlap
NextStart_NoOverlap(end, chunk_overlap) == end

\* start = end - self.chunk_overlap, one position short
NextStart_OneShort(end, chunk_overlap) == end - chunk_overlap - 1

\* start = end - self.chunk_overlap
NextStart(end, chunk_overlap) == end - chunk_overlap

ChunkInit ==
    /\ settings \in ChunkSettings
    /\ chroma = "ignore_existing"
    /\ collection = <<>>
    /\ last = NoCall
    /\ nOps = 0
    /\ chunker = ChunkerIdle
    /\ rag = RagIdle
    /\ RouteInit

\* chunk_text(text, metadata) is called: the empty text returns [] at once.
ChunkTextCall ==
    /\ chunker.pc = "idle"
    /\ \E text \in Texts : \E metadata \in MetadataArgs(text) :
        chunker' = IF text = <<>>
                   THEN [ChunkerIdle EXCEPT !.pc = "done", !.metadata = metadata]
                   ELSE [ChunkerIdle EXCEPT !.pc = "loop", !.text = text,
                                            !.metadata = metadata]
    /\ UNCHANGED <<settings, storeVars, rag, routeVars>>

\* One test of the while condition, and one iteration of its body.
ChunkTextLoop ==
    /\ chunker.pc = "loop"
    /\ IF chunker.start < Len(chunker.text)
       THEN LET end            == chunker.start + settings.CHUNK_SIZE
                chunk_text     == Slice(chunker.text, chunker.start, end)
                chunk_metadata == [chunk_id   |-> chunker.chunk_id,
                                   start_char |-> chunker.start,
                                   end_char   |-> end,
                                   text       |-> chunk_text]
                chunk          == IF OptDictTruthy(chunker.metadata)
                                  THEN DictUpdate(chunk_metadata, chunker.metadata.val)
                                  ELSE chunk_metadata
            IN  chunker' = [chunker EXCEPT
                                !.chunks   = Append(@, chunk),
                                !.start    = NextStart(end, settings.CHUNK_OVERLAP),
                                !.chunk_id = @ + 1]
       ELSE chunker' = [chunker EXCEPT !.pc = "done"]
    /\ UNCHANGED <<settings, storeVars, rag, routeVars>>

\* chunk_text returns chunker.chunks.
ChunkTextReturn ==
    /\ chunker.pc = "done"
    /\ chunker' = ChunkerIdle
    /\ UNCHANGED <<settings, storeVars, rag, routeVars>>

ChunkNext == ChunkTextCall \/ ChunkTextLoop \/ ChunkTextReturn

SpecChunk == ChunkInit /\ [][ChunkNext]_vars

\* The loop of chunk_text is sequential code: a call that is in the loop
\* takes its next step.
SpecChunkFair == ChunkInit /\ [][ChunkNext]_vars /\ WF_vars(ChunkTextLoop)

----
(***************************************************************************)
(* Properties of the chunker.                                              *)
(***************************************************************************)
\* C5: a non-empty text no longer than the window yields exactly one chunk,
\* whose text is the whole text.
C5_ShortTextOneChunk ==
    (/\ chunker.pc = "done"
     /\ Len(chunker.text) > 0
     /\ Len(chunker.text) <= settings.CHUNK_SIZE)
    => /\ Len(chunker.chunks) = 1
       /\ chunker.chunks[1].text = chunker.text

\* C6: for a text longer than the window the chunks are numbered 0, 1, 2,
\* ... without gaps, chunk i starts at i * (W - O) and holds
\* text[start:start + W], each chunk starts O before the recorded end of the
\* chunk before it, and every position of the text is in some chunk.
C6_ChunksCoverWithOverlap ==
    (chunker.pc = "done" /\ Len(chunker.text) > settings.CHUNK_SIZE) =>
        LET W  == settings.CHUNK_SIZE
            O  == settings.CHUNK_OVERLAP
            cs == chunker.chunks
        IN  /\ \A i \in 1..Len(cs) :
                    /\ cs[i].chunk_id = i - 1
                    /\ cs[i].start_char = (i - 1) * (W - O)
                    /\ cs[i].text = Slice(chunker.text, cs[i].start_char, cs[i].start_char + W)
            /\ \A i \in 1..(Len(cs) - 1) :
                    cs[i + 1].start_char = cs[i].end_char - O
            /\ \A p \in 0..(Len(chunker.text) - 1) :
                    \E i \in 1..Len(cs) :
                        /\ cs[i].start_char <= p
                        /\ p < cs[i].start_char + Len(cs[i].text)

\* A text longer than the window, chunked with a positive overlap into
\* three chunks or more, the last one shorter than the window.
C6_Witness ==
    /\ chunker.pc = "done"
    /\ Len(chunker.text) > settings.CHUNK_SIZE
    /\ settings.CHUNK_OVERLAP > 0
    /\ Len(chunker.chunks) >= 3
    /\ Len(chunker.chunks[Len(chunker.chunks)].text) < settings.CHUNK_SIZE

\* The start offset after each iteration of the loop of chunk_text.
ChunkStartAdvances ==
    LET W  == settings.CHUNK_SIZE
        O  == settings.CHUNK_OVERLAP
        cs == chunker.chunks
    IN  /\ chunker.pc \in {"loop", "done"} =>
            /\ W - O > 0
            /\ chunker.start = Len(cs) * (W - O)
            /\ \A i \in 1..Len(cs) :
                    /\ cs[i].start_char = (i - 1) * (W - O)
                    /\ cs[i].start_char < Len(chunker.text)
        /\ (chunker.pc = "done" /\ chunker.text = <<>>) => cs = <<>>
        /\ (chunker.pc = "done" /\ chunker.text # <<>>) =>
            /\ cs # <<>>
            /\ chunker.start >= Len(chunker.text)

\* C24: with an overlap smaller than the window chunk_text terminates for
\* every text: it returns no chunk for the empty text, and otherwise the
\* start offset grows by W - O > 0 in every iteration, from 0 until it
\* reaches the length of the text.
C24_ChunkTextTerminates ==
    /\ []ChunkStartAdvances
    /\ (chunker.pc = "loop") ~> (chunker.pc = "done")

\* A call that has returned after five iterations with W - O = 1.
C24_Witness ==
    /\ chunker.pc = "done"
    /\ settings.CHUNK_SIZE - settings.CHUNK_OVERLAP = 1
    /\ Len(chunker.text) = MaxLen
    /\ Len(chunker.chunks) = Len(chunker.text)
    /\ chunker.start = Len(chunker.text)

\* C30: the recorded offsets of every chunk lie inside the text and describe
\* the chunk's text exactly: end_char <= len(text) and end_char - start_char
\* is the length of the chunk's text, which is W for every chunk but the
\* last.
C30_OffsetsDescribeChunk ==
    chunker.pc = "done" =>
        LET cs == chunker.chunks
        IN  \A i \in 1..Len(cs) :
                /\ 0 <= cs[i].start_char
                /\ cs[i].start_char < Len(chunker.text)
                /\ cs[i].end_char <= Len(chunker.text)
                /\ cs[i].end_char - cs[i].start_char = Len(cs[i].text)
                /\ i < Len(cs) => Len(cs[i].text) = settings.CHUNK_SIZE

----
(***************************************************************************)
(* NLPService.  A question is a string; Matches(question) tabulates, for   *)
(* the questions of the model, what the regular expressions and substring  *)
(* tests of the service find in question.lower(): the question types whose *)
(* pattern matches, the intents one of whose keywords occurs, whether a    *)
(* beginner, expert or confusion indicator occurs, and the \b\w+\b tokens. *)
(***************************************************************************)
Questions ==
    {"What is a force majeure clause?",
     "Calculate the profit margin ratio",
     "List the parties",
     "Who signed it?",
     "Compare the trend",
     "Why is it so?",
     "Payment versus penalty",
     "Termination date",
     "What is the profit? Calculate it",
     "Basics of the algorithm",
     "When is it?",
     "I am confused by clause nine"}

Matches(question) ==
    CASE question = "What is a force majeure clause?" ->
            [types |-> {"what"}, intents |-> {"explanatory", "factual"},
             beginner |-> TRUE, expert |-> FALSE, confusion |-> FALSE,
             words |-> <<"what", "is", "a", "force", "majeure", "clause">>]
      [] question = "Calculate the profit margin ratio" ->
            [types |-> {}, intents |-> {"calculative"},
             beginner |-> FALSE, expert |-> FALSE, confusion |-> FALSE,
             words |-> <<"calculate", "the", "profit", "margin", "ratio">>]
      [] question = "List the parties" ->
            [types |-> {}, intents |-> {"factual"},
             beginner |-> FALSE, expert |-> FALSE, confusion |-> FALSE,
             words |-> <<"list", "the", "parties">>]
      [] question = "Who signed it?" ->
            [types |-> {"who"}, intents |-> {"factual"},
             beginner |-> FALSE, expert |-> FALSE, confusion |-> FALSE,
             words |-> <<"who", "signed", "it">>]
      [] question = "Compare the trend" ->
            [types |-> {}, intents |-> {"analytical", "comparative"},
             beginner |-> FALSE, expert |-> FALSE, confusion |-> FALSE,
             words |-> <<"compare", "the", "trend">>]
      [] question = "Why is it so?" ->
            [types |-> {"why"}, intents |-> {},
             beginner |-> FALSE, expert |-> FALSE, confusion |-> FALSE,
             words |-> <<"why", "is", "it", "so">>]
      [] question = "Payment versus penalty" ->
            [types |-> {}, intents |-> {"comparative"},
             beginner |-> FALSE, expert |-> FALSE, confusion |-> FALSE,
             words |-> <<"payment", "versus", "penalty">>]
      [] question = "Termination date" ->
            [types |-> {}, intents |-> {},
             beginner |-> FALSE, expert |-> FALSE, confusion |-> FALSE,
             words |-> <<"termination", "date">>]
      [] question = "What is the profit? Calculate it" ->
            [types |-> {"what"}, intents |-> {"explanatory", "calculative", "factual"},
             beginner |-> TRUE, expert |-> FALSE, confusion |-> FALSE,
             words |-> <<"what", "is", "the", "profit", "calculate", "it">>]
      [] question = "Basics of the algorithm" ->
            [types |-> {}, intents |-> {},
             beginner |-> TRUE, expert |-> TRUE, confusion |-> FALSE,
             words |-> <<"basics", "of", "the", "algorithm">>]
      [] question = "When is it?" ->
            [types |-> {"when"}, intents |-> {"factual"},
             beginner |-> FALSE, expert |-> FALSE, confusion |-> FALSE,
             words |-> <<"when", "is", "it">>]
      [] question = "I am confused by clause nine" ->
            [types |-> {}, intents |-> {},
             beginner |-> FALSE, expert |-> FALSE, confusion |-> TRUE,
             words |-> <<"i", "am", "confused", "by", "clause", "nine">>]

\* The order of self.question_patterns and of self.intent_keywords.
QuestionTypeOrder == <<"what", "why", "how", "when", "where", "who", "which">>

\* self.intent_keywords with the factual set checked first
IntentOrder_FactualFirst ==
    <<"factual", "explanatory", "analytical", "calculative", "comparative">>

IntentOrder == <<"explanatory", "analytical", "calculative", "comparative", "factual">>

\* The first entry of order that is in hits, or "unknown".
FirstHit(order, hits) ==
    IF \E i \in 1..Len(order) : order[i] \in hits
    THEN order[CHOOSE i \in 1..Len(order) :
                    order[i] \in hits /\ \A j \in 1..(i - 1) : order[j] \notin hits]
    ELSE "unknown"

\* The detectors, given what the patterns and keywords match in the question.
QuestionTypeOf(matches) == FirstHit(QuestionTypeOrder, matches.types)

IntentOf(matches) == FirstHit(IntentOrder, matches.intents)

UserLevelOf(matches) ==
    IF matches.beginner THEN "beginner"
    ELSE IF matches.expert THEN "expert"
    ELSE "intermediate"

ConfusionOf(matches) == matches.confusion

\* _detect_question_type
DetectQuestionType(question) == QuestionTypeOf(Matches(question))

\* _detect_intent
DetectIntent(question) == IntentOf(Matches(question))

\* _detect_user_level
DetectUserLevel(question) == UserLevelOf(Matches(question))

\* _detect_confusion
DetectConfusion(question) == ConfusionOf(Matches(question))

StopWords ==
    {"the", "a", "an", "is", "are", "was", "were", "be", "been", "being",
     "have", "has", "had", "do", "does", "did", "will", "would", "should",
     "could", "may", "might", "must", "can", "this", "that", "these", "those",
     "i", "you", "he", "she", "it", "we", "they", "what", "which", "who",
     "when", "where", "why", "how", "and", "or", "but", "if", "then", "else"}

\* The sequence without the later copies of its elements.
RECURSIVE Unique(_)
Unique(seq) ==
    IF seq = <<>> THEN <<>>
    ELSE LET front == Unique(SubSeq(seq, 1, Len(seq) - 1))
             x     == seq[Len(seq)]
         IN  IF \E i \in 1..Len(front) : front[i] = x THEN front ELSE Append(front, x)

IsKeyTerm(w) == w \notin StopWords /\ Len(w) > 2

\* The key terms of a question with these words.
KeyTermsOf(matches) ==
    LET unique_terms == Unique(SelectSeq(matches.words, IsKeyTerm))
    IN  SubSeq(unique_terms, 1, Min(5, Len(unique_terms)))

\* _extract_key_terms
ExtractKeyTerms(question) == KeyTermsOf(Matches(question))

\* analyze_question, given what the patterns and keywords match in the question
Analysis(matches, question) ==
    LET question_type == QuestionTypeOf(matches)
        intent        == IntentOf(matches)
        user_level    == UserLevelOf(matches)
        is_confused   == ConfusionOf(matches)
    IN  [question_type     |-> question_type,
         intent            |-> intent,
         user_level        |-> user_level,
         is_confused       |-> is_confused,
         needs_explanation |-> \/ intent \in {"explanatory", "analytical"}
                               \/ question_type \in {"what", "why", "how"}
                               \/ is_confused
                               \/ user_level = "beginner",
         key_terms         |-> KeyTermsOf(matches),
         original_question |-> question]

\* analyze_question
AnalyzeQuestion(question) == Analysis(Matches(question), question)

\* Everything the patterns and keywords can match in a question: any set of
\* question patterns, any set of intent keyword sets, any indicators, with
\* or without a key term.
MatchProfiles ==
    [types     : SUBSET {"what", "why", "how", "when", "where", "who", "which"},
     intents   : SUBSET {"explanatory", "analytical", "calculative",
                         "comparative", "factual"},
     beginner  : BOOLEAN,
     expert    : BOOLEAN,
     confusion : BOOLEAN,
     words     : {<<>>, <<"clause">>}]

\* The analyses analyze_question can produce.
Analyses == {Analysis(m, "") : m \in MatchProfiles}

----
(***************************************************************************)
(* RAGService.  A context string is the sequence of its parts; a           *)
(* temperature is given in tenths.                                         *)
(***************************************************************************)
\* is_complex
IsComplex(query_analysis) ==
    \/ query_analysis.needs_explanation
    \/ query_analysis.intent \in {"analytical", "explanatory", "calculative"}
    \/ query_analysis.question_type \in {"why", "how"}

\* effective_top_k with the two widths exchanged
EffectiveTopK_Swapped(top_k, query_analysis, conf) ==
    IF top_k.some /\ top_k.val # 0 THEN top_k.val
    ELSE IF IsComplex(query_analysis) THEN conf.TOP_K_RESULTS
    ELSE conf.TOP_K_COMPLEX

\* effective_top_k = top_k or (TOP_K_COMPLEX if is_complex else TOP_K_RESULTS)
EffectiveTopK(top_k, query_analysis, conf) ==
    IF top_k.some /\ top_k.val # 0 THEN top_k.val
    ELSE IF IsComplex(query_analysis) THEN conf.TOP_K_COMPLEX
    ELSE conf.TOP_K_RESULTS

\* The arguments of the search call query() makes.
QuerySearchArgs(conf, question, user_id, top_k) ==
    [query       |-> question,
     top_k       |-> Some(EffectiveTopK(top_k, AnalyzeQuestion(question), conf)),
     user_id     |-> user_id,
     filter_dict |-> None]

\* The keys of chunks_by_file, in insertion order.
FileOrder(chunks) ==
    Unique([i \in 1..Len(chunks) |-> chunks[i].metadata.filename])

\* chunks_by_file[filename]
FileChunks(chunks, filename) ==
    LET OfFile(chunk) == chunk.metadata.filename = filename
    IN  SelectSeq(chunks, OfFile)

\* The context parts of the files, numbering the sources from source_counter.
RECURSIVE ContextParts(_, _, _)
ContextParts(chunks, files, source_counter) ==
    IF files = <<>> THEN <<>>
    ELSE LET filename    == Head(files)
             file_chunks == FileChunks(chunks, filename)
         IN  <<[kind |-> "document", filename |-> filename]>>
             \o [i \in 1..Len(file_chunks) |->
                    [kind           |-> "source",
                     source_counter |-> source_counter + i - 1,
                     filename       |-> filename,
                     text           |-> file_chunks[i].text]]
             \o ContextParts(chunks, Tail(files), source_counter + Len(file_chunks))

\* _build_context
BuildContext(chunks) == ContextParts(chunks, FileOrder(chunks), 1)

\* _get_instructions_for_intent choosing by the intent alone
GetInstructionsForIntent_IntentOnly(intent, question_type, user_level, needs_explanation) ==
    IF intent = "explanatory" THEN "explanation"
    ELSE IF intent = "analytical" THEN "analysis"
    ELSE IF intent = "calculative" THEN "calculation"
    ELSE IF intent = "factual" THEN "factual"
    ELSE "default"

\* _get_instructions_for_intent: the template it returns
GetInstructionsForIntent(intent, question_type, user_level, needs_explanation) ==
    IF intent = "explanatory" \/ needs_explanation THEN "explanation"
    ELSE IF intent = "analytical" THEN "analysis"
    ELSE IF intent = "calculative" THEN "calculation"
    ELSE IF intent = "factual" THEN "factual"
    ELSE "default"

\* _get_format_instructions: the block it returns
GetFormatInstructions(user_level, needs_explanation) ==
    IF needs_explanation THEN "sections" ELSE "concise"

\* _create_enhanced_rag_prompt
CreateEnhancedRagPrompt(question, context, query_analysis) ==
    [question           |-> question,
     context            |-> context,
     confusion_note     |-> query_analysis.is_confused,
     instructions       |-> GetInstructionsForIntent(query_analysis.intent,
                                query_analysis.question_type,
                                query_analysis.user_level,
                                query_analysis.needs_explanation),
     cot_instruction    |-> TRUE,
     format_instruction |-> GetFormatInstructions(query_analysis.user_level,
                                query_analysis.needs_explanation)]

\* Python truthiness of an Optional[float]: None and 0.0 are false.
OptNumTruthy(o) == o.some /\ o.val # 0

\* text[:200] + "..."
TextPreview(text) == [first_200 |-> text, then |-> "..."]

\* _format_sources
FormatSources(chunks) ==
    [i \in 1..Len(chunks) |->
        [source_id       |-> i,
         filename        |-> chunks[i].metadata.filename,
         chunk_id        |-> chunks[i].metadata.chunk_id,
         text_preview    |-> TextPreview(chunks[i].text),
         relevance_score |-> IF OptNumTruthy(chunks[i].distance)
                             THEN Some(1 - chunks[i].distance.val)
                             ELSE None]]

\* _generate_general_knowledge_response without its try/except
GenerateGeneralKnowledgeResponse_NoCatch(question, key_terms, user_level, llm_ok) ==
    LET call == [prompt      |-> [general_knowledge |-> question,
                                  key_terms |-> key_terms,
                                  user_level |-> user_level],
                 temperature |-> 4, max_tokens |-> 800]
    IN  [llm_calls |-> <<call>>,
         raised    |-> ~llm_ok,
         answer    |-> [kind |-> "generated", call |-> call]]

\* _generate_general_knowledge_response: [llm_calls, raised, answer]
GenerateGeneralKnowledgeResponse(question, key_terms, user_level, llm_ok) ==
    LET call == [prompt      |-> [general_knowledge |-> question,
                                  key_terms |-> key_terms,
                                  user_level |-> user_level],
                 temperature |-> 4, max_tokens |-> 800]
    IN  [llm_calls |-> <<call>>,
         raised    |-> FALSE,
         answer    |-> IF llm_ok
                       THEN [kind |-> "generated", call |-> call]
                       ELSE [kind |-> "no_specific_information",
                             key_terms |-> key_terms]]

\* temperature, with the beginner band taken first
Temperature_BeginnerFirst(is_complex, user_level) ==
    IF user_level = "beginner" THEN 4 ELSE IF is_complex THEN 2 ELSE 3

\* temperature = 0.2 if is_complex else (0.4 if user_level == "beginner" else 0.3)
Temperature(is_complex, user_level) ==
    IF is_complex THEN 2 ELSE IF user_level = "beginner" THEN 4 ELSE 3

\* max_tokens = 2500 if needs_explanation else (2000 if is_complex else 1500)
MaxTokens(needs_explanation, is_complex) ==
    IF needs_explanation THEN 2500 ELSE IF is_complex THEN 2000 ELSE 1500

\* query(question, user_id, top_k), given what its search call retrieved and
\* whether the generator answers: [searches, llm_calls, context, raised, response]
Query(conf, question, user_id, top_k, retrieved_chunks, llm_ok) ==
    LET query_analysis    == AnalyzeQuestion(question)
        needs_explanation == query_analysis.needs_explanation
        user_level        == query_analysis.user_level
        key_terms         == query_analysis.key_terms
        is_complex        == IsComplex(query_analysis)
        searches          == <<QuerySearchArgs(conf, question, user_id, top_k)>>
        empty_metadata    == [chunks_retrieved |-> 0, query_analysis |-> query_analysis]
        context           == BuildContext(retrieved_chunks)
        prompt            == CreateEnhancedRagPrompt(question, context, query_analysis)
        temperature       == Temperature(is_complex, user_level)
        max_tokens        == MaxTokens(needs_explanation, is_complex)
        general           == GenerateGeneralKnowledgeResponse(question, key_terms,
                                                              user_level, llm_ok)
        rag_call          == [prompt |-> prompt, temperature |-> temperature,
                              max_tokens |-> max_tokens]
    IN  IF retrieved_chunks = <<>>
        THEN IF needs_explanation /\ key_terms # <<>>
             THEN [searches |-> searches, llm_calls |-> general.llm_calls,
                   context |-> <<>>, raised |-> general.raised,
                   response |-> IF general.raised THEN None
                                ELSE Some([answer   |-> general.answer,
                                           sources  |-> <<>>,
                                           metadata |-> empty_metadata])]
             ELSE [searches |-> searches, llm_calls |-> <<>>,
                   context |-> <<>>, raised |-> FALSE,
                   response |-> Some(
                     [answer   |-> [kind |-> "no_relevant_information"],
                      sources  |-> <<>>,
                      metadata |-> empty_metadata])]
        ELSE IF ~llm_ok
             THEN [searches |-> searches, llm_calls |-> <<rag_call>>,
                   context |-> context, raised |-> TRUE, response |-> None]
             ELSE [searches |-> searches, llm_calls |-> <<rag_call>>,
                   context |-> context, raised |-> FALSE,
                   response |-> Some(
                     [answer   |-> [kind |-> "generated", call |-> rag_call],
                      sources  |-> FormatSources(retrieved_chunks),
                      metadata |-> [chunks_retrieved |-> Len(retrieved_chunks),
                                    question         |-> question,
                                    query_analysis   |-> query_analysis]])]

----
(***************************************************************************)
(* Uploads and queries, as the routes make them.                           *)
(***************************************************************************)
\* The retrieval widths the environment may set.
Widths == {1, 3}

QuerySettings ==
    {[DefaultSettings EXCEPT !.TOP_K_RESULTS = r, !.TOP_K_COMPLEX = c] :
        r \in Widths, c \in Widths}

\* generate_embedding(question): the embedding model is a function of the text.
EmbedQuestion(question) == Len(question) % 3

QueryInit ==
    /\ settings \in QuerySettings
    /\ StoreInit
    /\ chunker = ChunkerIdle
    /\ rag = RagIdle
    /\ RouteInit

\* upload_document once the file is validated and saved: chunk, embed, store.
\* Every file is uploaded with its first contents, cut into n chunks.
UploadCall ==
    /\ Idle
    /\ nOps < MaxUploads
    /\ \E u \in Tenants, f \in Filenames, n \in 1..MaxChunks :
        LET chunks     == ChunksWithMetadata(f, 1, n, u)
            embeddings == EmbeddingLists(1, n)
            out        == StoreDocuments(collection, chroma, chunks, embeddings, u)
        IN  /\ collection' = out.coll
            /\ last' = [NoCall EXCEPT !.op = "upload", !.user_id = u,
                            !.chunks = chunks, !.embeddings = embeddings,
                            !.raised = out.raised, !.before = collection]
    /\ nOps' = nOps + 1
    /\ UNCHANGED <<settings, chroma, chunker, rag, routeVars>>

\* query_documents calls rag_service.query(question, user_id); q is the
\* embedding of the question.
QueryCall ==
    /\ Idle
    /\ \E question \in Questions, u \in Tenants, llm_ok \in BOOLEAN :
        LET args == QuerySearchArgs(settings, question, u, None)
            q    == EmbedQuestion(args.query)
        IN  \E r \in Search(collection, settings, q, args.top_k, args.user_id,
                            args.filter_dict) :
                LET out == Query(settings, question, u, None, r, llm_ok)
                IN  rag' = [op |-> "query", question |-> question, user_id |-> u,
                            query_analysis |-> Some(AnalyzeQuestion(question)),
                            searches |-> out.searches, retrieved |-> r,
                            context |-> out.context, llm_calls |-> out.llm_calls,
                            llm_ok |-> llm_ok,
                            raised |-> out.raised, response |-> out.response]
    /\ UNCHANGED <<settings, chroma, collection, last, nOps, chunker, routeVars>>

QueryNext == UploadCall \/ QueryCall \/ Return

SpecQuery == QueryInit /\ [][QueryNext]_vars

----
(***************************************************************************)
(* The analysis of a question and what query derives from it: the prompt   *)
(* and the generation parameters.                                          *)
(***************************************************************************)
\* query_analysis, prompt, temperature and max_tokens of query for a question
\* in which the patterns and keywords match as in matches.
Analyzed(question, matches) ==
    LET query_analysis == Analysis(matches, question)
        is_complex     == IsComplex(query_analysis)
    IN  [op             |-> "analyze",
         question       |-> question,
         matches        |-> matches,
         query_analysis |-> Some(query_analysis),
         prompt         |-> CreateEnhancedRagPrompt(question, <<>>, query_analysis),
         temperature    |-> Temperature(is_complex, query_analysis.user_level),
         max_tokens     |-> MaxTokens(query_analysis.needs_explanation, is_complex)]

\* analyze_question and the prompt of one of the questions
AnalyzeQuestionCall ==
    /\ Idle
    /\ \E question \in Questions :
        rag' = Analyzed(question, Matches(question))
    /\ UNCHANGED <<settings, storeVars, chunker, routeVars>>

\* analyze_question and the prompt of any question, by what matches in it
AnalyzeMatchesCall ==
    /\ Idle
    /\ \E matches \in MatchProfiles :
        rag' = Analyzed("", matches)
    /\ UNCHANGED <<settings, storeVars, chunker, routeVars>>

AnalyzeNext == AnalyzeQuestionCall \/ AnalyzeMatchesCall \/ Return

SpecAnalyze == Init /\ [][AnalyzeNext]_vars

----
(***************************************************************************)
(* AuthService, DecisionModeService and the decision-mode route.           *)
(***************************************************************************)
\* The tokens of a request: none, the empty string, one Google rejects, and
\* one of the account a_b@example.org.
Tokens == {None, Some(""), Some("bad"), Some("tok_a_b")}

\* The tokens of the accounts a_b@example.com and a@example.org as well.
AuthTokens == Tokens \cup {Some("tok_a_b_com"), Some("tok_a")}

\* What Google answers for a token: the account's email, or nothing.
GoogleEmail(token) ==
    CASE token = "tok_a_b"     -> Some([prefix |-> "a_b", domain |-> "example.org"])
      [] token = "tok_a_b_com" -> Some([prefix |-> "a_b", domain |-> "example.com"])
      [] token = "tok_a"       -> Some([prefix |-> "a", domain |-> "example.org"])
      [] OTHER                 -> None

\* verify_google_token: [raised, user_info]; user_id = email.split('@')[0]
VerifyGoogleToken(token) ==
    LET email == GoogleEmail(token)
    IN  IF email.some
        THEN [raised |-> FALSE,
              user_info |-> [email |-> email.val, user_id |-> email.val.prefix]]
        ELSE [raised |-> TRUE, user_info |-> None]

\* user_id of a request: the token's when it verifies, else the request's
\* [user_id, events]
RequestUserId(user_id, token) ==
    IF OptStrTruthy(token)
    THEN LET v == VerifyGoogleToken(token.val)
         IN  [user_id |-> IF v.raised THEN user_id ELSE v.user_info.user_id,
              events  |-> <<"verify_token">>]
    ELSE [user_id |-> user_id, events |-> <<>>]

\* valid_modes, with every mode let through
ValidModes_Open ==
    {"risk_analysis", "revenue_analysis", "clause_extraction", "summary", "not_a_mode"}

\* valid_modes
ValidModes ==
    {"risk_analysis", "revenue_analysis", "clause_extraction", "summary"}

\* The modes a request may name.
Modes == ValidModes \cup {"not_a_mode"}

\* The queries of decision-mode requests.
DecisionQueries == {"List the parties", "Who signed it?"}

\* The search call of process_decision_query, at the default width
DecisionSearchArgs_DefaultWidth(conf, query, user_id) ==
    [query       |-> query,
     top_k       |-> Some(conf.TOP_K_RESULTS),
     user_id     |-> user_id,
     filter_dict |-> None]

\* The arguments of the search call process_decision_query makes.
DecisionSearchArgs(conf, query, user_id) ==
    [query       |-> query,
     top_k       |-> Some(conf.TOP_K_COMPLEX),
     user_id     |-> user_id,
     filter_dict |-> None]

\* DecisionModeService._build_context
DecisionBuildContext(chunks) ==
    [i \in 1..Len(chunks) |->
        [filename |-> chunks[i].metadata.filename, text |-> chunks[i].text]]

\* _get_mode_prompt: the template of the mode, filled in
GetModePrompt(mode, query, context) ==
    [template |-> IF mode \in {"risk_analysis", "revenue_analysis",
                               "clause_extraction", "summary"}
                  THEN mode ELSE "default",
     query    |-> query,
     context  |-> context]

\* The lists that hold the elements of S once each.
RECURSIVE ListsOfSet(_)
ListsOfSet(S) ==
    IF S = {} THEN {<<>>}
    ELSE UNION {{<<x>> \o l : l \in ListsOfSet(S \ {x})} : x \in S}

\* The filenames of the chunks, as a set.
ChunkFilenames(chunks) == {chunks[i].metadata.filename : i \in 1..Len(chunks)}

\* _format_response; sources is list(set(...)) in the order the set gave it
FormatResponse(mode, response, chunks, sources) ==
    [mode            |-> mode,
     result          |-> response,
     structured_data |-> Some([sources |-> sources,
                               chunks_analyzed |-> Len(chunks)]),
     metadata        |-> [mode |-> mode, sources_count |-> Len(sources)]]

\* process_decision_query, given what its search call retrieved, whether the
\* generator answers and the order of list(set(...)):
\* [searches, llm_calls, context, raised, result]
ProcessDecisionQuery(conf, query, mode, user_id, retrieved_chunks, llm_ok, sources) ==
    LET searches == <<DecisionSearchArgs(conf, query, user_id)>>
        context  == DecisionBuildContext(retrieved_chunks)
        call     == [prompt |-> GetModePrompt(mode, query, context),
                     temperature |-> 2, max_tokens |-> 2000]
    IN  IF retrieved_chunks = <<>>
        THEN [searches |-> searches, llm_calls |-> <<>>, context |-> <<>>,
              raised |-> FALSE,
              result |-> Some([mode   |-> mode,
                               result |-> [kind |-> "no_relevant_information"],
                               structured_data |-> None])]
        ELSE IF ~llm_ok
        THEN [searches |-> searches, llm_calls |-> <<call>>, context |-> context,
              raised |-> TRUE, result |-> None]
        ELSE [searches |-> searches, llm_calls |-> <<call>>, context |-> context,
              raised |-> FALSE,
              result |-> Some(FormatResponse(mode,
                                [kind |-> "generated", call |-> call],
                                retrieved_chunks, sources))]

\* DecisionResponse(**result): mode, result and metadata have no default, so
\* validation fails without them: [raised, response]
DecisionResponse(result) ==
    IF {"mode", "result", "metadata"} \subseteq DOMAIN result
    THEN [raised |-> FALSE, response |-> Some(result)]
    ELSE [raised |-> TRUE, response |-> None]

\* The decision_mode route, once the service's outcome is known:
\* the status and the body of the answer.
DecisionModeAnswer(out) ==
    IF out.raised THEN [status |-> 500, response |-> None]
    ELSE LET r == DecisionResponse(out.result.val)
         IN  IF r.raised THEN [status |-> 500, response |-> None]
             ELSE [status |-> 200, response |-> r.response]

\* A decision-mode request that names a mode outside valid_modes.
DecisionModeReject(query, mode, user_id, token) ==
    [op |-> "decision", query |-> query, mode |-> mode, user_id |-> user_id,
     token |-> token, events |-> <<>>, searches |-> <<>>, retrieved |-> <<>>,
     context |-> <<>>, llm_calls |-> <<>>, llm_ok |-> TRUE, result |-> None,
     status |-> 400, response |-> None]

\* POST /api/decision-mode
DecisionModeCall ==
    /\ Idle
    /\ \E query \in DecisionQueries, mode \in Modes, user_id \in Tenants,
          token \in Tokens, llm_ok \in BOOLEAN :
        IF mode \notin ValidModes
        THEN rag' = DecisionModeReject(query, mode, user_id, token)
        ELSE LET who  == RequestUserId(user_id, token)
                 args == DecisionSearchArgs(settings, query, who.user_id)
             IN  \E r \in Search(collection, settings, EmbedQuestion(args.query),
                                 args.top_k, args.user_id, args.filter_dict) :
                 \E sources \in ListsOfSet(ChunkFilenames(r)) :
                    LET out == ProcessDecisionQuery(settings, query, mode,
                                    who.user_id, r, llm_ok, sources)
                        ans == DecisionModeAnswer(out)
                    IN  rag' = [op |-> "decision", query |-> query, mode |-> mode,
                                user_id |-> who.user_id, token |-> token,
                                events |-> who.events \o <<"embed", "search">>
                                    \o [i \in 1..Len(out.llm_calls) |-> "generate"],
                                searches |-> out.searches, retrieved |-> r,
                                context |-> out.context,
                                llm_calls |-> out.llm_calls, llm_ok |-> llm_ok,
                                result |-> out.result,
                                status |-> ans.status, response |-> ans.response]
    /\ UNCHANGED <<settings, chroma, collection, last, nOps, chunker, routeVars>>

DecisionNext == UploadCall \/ DecisionModeCall \/ Return

SpecDecision == QueryInit /\ [][DecisionNext]_vars

\* The email Google has verified for the token of a request, if any.
VerifiedIdentity(token) ==
    IF OptStrTruthy(token) THEN GoogleEmail(token.val) ELSE None

\* POST /api/query with a user_id and a token: the user_id is resolved, then
\* rag_service.query(question, user_id) answers.
TokenQueryCall ==
    /\ Idle
    /\ \E question \in DecisionQueries, user_id \in Tenants, token \in AuthTokens,
          llm_ok \in BOOLEAN :
        LET who  == RequestUserId(user_id, token)
            args == QuerySearchArgs(settings, question, who.user_id, None)
            q    == EmbedQuestion(args.query)
        IN  \E r \in Search(collection, settings, q, args.top_k, args.user_id,
                            args.filter_dict) :
                LET out == Query(settings, question, who.user_id, None, r, llm_ok)
                IN  rag' = [op |-> "query", question |-> question,
                            user_id |-> who.user_id, token |-> token,
                            identity |-> VerifiedIdentity(token),
                            query_analysis |-> Some(AnalyzeQuestion(question)),
                            searches |-> out.searches, retrieved |-> r,
                            context |-> out.context, llm_calls |-> out.llm_calls,
                            llm_ok |-> llm_ok,
                            raised |-> out.raised, response |-> out.response]
    /\ UNCHANGED <<settings, chroma, collection, last, nOps, chunker, routeVars>>

AuthNext == UploadCall \/ TokenQueryCall \/ Return

SpecAuth == QueryInit /\ [][AuthNext]_vars

----
(***************************************************************************)
(* LLMService._generate_groq_response, one loop iteration per step.        *)
(***************************************************************************)
\* models_to_try, last model first
ModelsToTry_Reversed ==
    <<"mixtral-8x7b-32768", "llama-3.1-8b-instant", "llama-3.3-70b-versatile">>

\* models_to_try
ModelsToTry ==
    <<"llama-3.3-70b-versatile", "llama-3.1-8b-instant", "mixtral-8x7b-32768">>

\* What the backend does with a request for one model: it answers, it fails,
\* or it answers with no choices (choices[0] raises IndexError).
BackendOutcomes == {"ok", "api_error", "no_choices"}

\* The models the backend knows.
BackendModels ==
    {"llama-3.3-70b-versatile", "llama-3.1-8b-instant", "mixtral-8x7b-32768"}

Prompts == {"prompt 1", "prompt 2"}

Temperatures == {2, 3, 4}

\* The max_tokens the callers pass.
MaxTokensArgs == {800, 1500, 2000, 2500}

\* _generate_groq_response(prompt, temperature, max_tokens) is called.
GenerateCall ==
    /\ llm.pc = "idle"
    /\ \E prompt \in Prompts, temperature \in Temperatures,
          max_tokens \in MaxTokensArgs,
          backend \in [BackendModels -> BackendOutcomes] :
        llm' = [LlmIdle EXCEPT !.pc = "loop", !.prompt = prompt,
                    !.temperature = temperature,
                    !.max_tokens = max_tokens,
                    !.backend = backend]
    /\ UNCHANGED <<hf, settings, storeVars, chunker, rag, uploads, procs, solo>>

\* One pass of `for model_name in models_to_try`, or the raise after the loop.
GenerateTry ==
    /\ llm.pc = "loop"
    /\ IF llm.i <= Len(ModelsToTry)
       THEN LET model_name == ModelsToTry[llm.i]
                attempt    == [model |-> model_name, prompt |-> llm.prompt,
                               temperature |-> llm.temperature,
                               max_tokens |-> llm.max_tokens]
            IN  IF llm.backend[model_name] = "ok"
                THEN llm' = [llm EXCEPT !.attempts = Append(@, attempt),
                                !.pc = "done",
                                !.ret = Some([content_of |-> attempt])]
                ELSE llm' = [llm EXCEPT !.attempts = Append(@, attempt),
                                !.last_error = Some([model |-> model_name,
                                                     kind |-> llm.backend[model_name]]),
                                !.i = @ + 1]
       ELSE llm' = [llm EXCEPT !.pc = "done", !.raised = TRUE,
                        !.error = Some([message |-> <<"Groq API error: ",
                                                      "Groq API error: ">>,
                                        cause |-> llm.last_error])]
    /\ UNCHANGED <<hf, settings, storeVars, chunker, rag, uploads, procs, solo>>

\* The call returns or raises to its caller.
GenerateReturn ==
    /\ llm.pc = "done"
    /\ llm' = LlmIdle
    /\ UNCHANGED <<hf, settings, storeVars, chunker, rag, uploads, procs, solo>>

GenerateNext == GenerateCall \/ GenerateTry \/ GenerateReturn

\* The loop is sequential code: a call that has started keeps running.
SpecGenerate ==
    /\ Init
    /\ [][GenerateNext]_vars
    /\ WF_vars(GenerateTry)

\* What holds of the attempts of a call at every moment: they follow the fixed
\* list, each model at most once, all but the latest have failed, and a
\* finished call either returns the text of the only model that succeeded or
\* raises, after every model has failed, an error that carries the last one's.
GenerateAttemptsInOrder ==
    LET order == <<"llama-3.3-70b-versatile", "llama-3.1-8b-instant",
                   "mixtral-8x7b-32768">>
        n     == Len(llm.attempts)
    IN  /\ n <= Len(order)
        /\ \A k \in 1..n :
              /\ llm.attempts[k].model = order[k]
              /\ llm.attempts[k].prompt = llm.prompt
              /\ llm.attempts[k].temperature = llm.temperature
              /\ llm.attempts[k].max_tokens = llm.max_tokens
        /\ \A k \in 1..(n - 1) : llm.backend[order[k]] # "ok"
        /\ llm.pc = "done" =>
              IF llm.raised
              THEN /\ n = Len(order)
                   /\ \A k \in 1..n : llm.backend[order[k]] # "ok"
                   /\ llm.ret = None
                   /\ llm.error.some
                   /\ llm.error.val.cause =
                         Some([model |-> order[n], kind |-> llm.backend[order[n]]])
              ELSE /\ n >= 1
                   /\ llm.backend[order[n]] = "ok"
                   /\ llm.ret = Some([content_of |-> llm.attempts[n]])

\* C15: a generator call tries the backend models in their fixed list order,
\* at most once each, returns the text of the first model that succeeds
\* without trying a later one, fails only after every model has failed, with
\* an error that carries the last model's error, and always terminates after
\* at most as many attempts as there are models.
C15_GenerateFallsBackInOrder ==
    /\ []GenerateAttemptsInOrder
    /\ (llm.pc = "loop") ~> (llm.pc = "done")

\* The first two models fail and the third answers.
C15_Witness ==
    /\ llm.pc = "done"
    /\ ~llm.raised
    /\ Len(llm.attempts) = 3
    /\ llm.backend["llama-3.3-70b-versatile"] = "api_error"
    /\ llm.backend["llama-3.1-8b-instant"] = "no_choices"

----
(***************************************************************************)
(* The upload route, served by two workers.  A request is served in three  *)
(* steps: validate and save the file, process and embed it, store it.      *)
(***************************************************************************)
MAX_FILE_SIZE == 10485760

\* settings.allowed_extensions_list
AllowedExtensions == {".pdf", ".docx", ".txt"}

\* The names of uploaded files.
UploadFilenames == {"c.txt", "c.exe"}

\* Path(filename).suffix.lower()
Suffix(filename) ==
    CASE filename = "c.txt"   -> ".txt"
      [] filename = "b_c.txt" -> ".txt"
      [] filename = "c.exe"   -> ".exe"

\* The sizes of uploaded files: at the ceiling and one byte above it.
UploadSizes == {MAX_FILE_SIZE, MAX_FILE_SIZE + 1}

\* What a file holds: no text, or a version of a text of MaxChunks chunks.
NoText == 0

FileContents == {NoText} \cup Versions

\* What may go wrong while a request is processed, and while it is stored.
ProcessFaults == {"none", "extract", "chunk", "embed"}

StoreFaults == {"none", "store"}

\* A request that a worker has taken.
ProcTaken(user_id, filename, size) ==
    [pc |-> "saved", user_id |-> user_id, filename |-> filename, size |-> size,
     chunks |-> <<>>, embeddings |-> <<>>, events |-> <<>>, fault |-> "none",
     status |-> 0, wrote |-> FALSE, during |-> {}]

\* The except branch without its clean-up.
RemoveFile_Keep(files, filename) == files

\* The files of the uploads directory without the one named filename:
\* if file_path.exists(): os.remove(file_path)
RemoveFile(files, filename) ==
    [f \in (DOMAIN files) \ {filename} |-> files[f]]

\* open(file_path, "wb").write(contents)
WriteFile(files, filename, contents) ==
    [f \in (DOMAIN files) \cup {filename} |->
        IF f = filename THEN contents ELSE files[f]]

\* The workers whose request is saved and not yet answered.
InFlight == {w \in Workers : procs[w].pc \in {"saved", "embedded"}}

\* upload_document up to the saved file: resolve the user_id, validate the
\* extension and the size, write the file.
UploadStart(w) ==
    /\ procs[w].pc = "idle"
    /\ nOps < MaxUploads
    /\ \E user_id \in Tenants, token \in Tokens, filename \in UploadFilenames,
          size \in UploadSizes, contents \in FileContents :
        LET who   == RequestUserId(user_id, token)
            taken == ProcTaken(who.user_id, filename, size)
        IN  IF Suffix(filename) \notin AllowedExtensions \/ size > MAX_FILE_SIZE
            THEN /\ procs' = [procs EXCEPT ![w] =
                                [taken EXCEPT !.pc = "done", !.status = 400]]
                 /\ UNCHANGED uploads
            ELSE /\ procs' = [procs EXCEPT ![w] =
                                [taken EXCEPT !.events = <<"save">>]]
                 /\ uploads' = WriteFile(uploads, filename, contents)
    /\ nOps' = nOps + 1
    /\ UNCHANGED <<hf, settings, chroma, collection, last, chunker, rag, llm, solo>>

\* process_document and generate_embeddings, and the except branch when one
\* of them raises.  The text is what the file holds when it is read.
UploadProcess(w) ==
    /\ procs[w].pc = "saved"
    /\ \E fault \in ProcessFaults :
        LET me       == procs[w]
            present  == me.filename \in DOMAIN uploads
            text     == IF present THEN uploads[me.filename] ELSE NoText
            raises   == ~present \/ text = NoText \/ fault # "none"
            events   == me.events \o <<"extract">>
                        \o (IF ~present \/ text = NoText \/ fault = "extract"
                            THEN <<>>
                            ELSE IF fault = "chunk" THEN <<"chunk">>
                            ELSE <<"chunk", "embed">>)
        IN  IF raises
            THEN /\ procs' = [procs EXCEPT ![w] =
                                [me EXCEPT !.pc = "done", !.status = 500,
                                           !.fault = fault, !.events = events]]
                 /\ uploads' = RemoveFile(uploads, me.filename)
            ELSE /\ procs' = [procs EXCEPT ![w] =
                                [me EXCEPT !.pc = "embedded", !.events = events,
                                    !.chunks = ChunksWithMetadata(me.filename, text,
                                                    MaxChunks, me.user_id),
                                    !.embeddings = EmbeddingLists(text, MaxChunks)]]
                 /\ UNCHANGED uploads
    /\ UNCHANGED <<hf, settings, storeVars, chunker, rag, llm, solo>>

\* vector_db.store_documents and the answer, or the except branch.
UploadStore(w) ==
    /\ procs[w].pc = "embedded"
    /\ \E fault \in StoreFaults :
        LET me  == procs[w]
            out == IF fault = "store"
                   THEN [raised |-> TRUE, coll |-> collection]
                   ELSE StoreDocuments(collection, chroma, me.chunks,
                                       me.embeddings, me.user_id)
        IN  /\ collection' = out.coll
            /\ procs' = [procs EXCEPT ![w] =
                            [me EXCEPT !.pc = "done", !.fault = fault,
                                !.events = Append(@, "store"),
                                !.status = IF out.raised THEN 500 ELSE 200,
                                !.wrote = (out.coll # collection),
                                !.during = InFlight \ {w}]]
            /\ uploads' = IF out.raised THEN RemoveFile(uploads, me.filename)
                          ELSE uploads
    /\ UNCHANGED <<hf, settings, chroma, last, nOps, chunker, rag, llm, solo>>

\* The answer is sent; the worker is free again.
UploadReturn(w) ==
    /\ procs[w].pc = "done"
    /\ procs' = [procs EXCEPT ![w] = ProcIdle]
    /\ UNCHANGED <<hf, settings, storeVars, chunker, rag, llm, uploads, solo>>

UploadStartStep == \E w \in Workers : UploadStart(w)

UploadProcessStep == \E w \in Workers : UploadProcess(w)

UploadStoreStep == \E w \in Workers : UploadStore(w)

UploadReturnStep == \E w \in Workers : UploadReturn(w)

UploadNext ==
    UploadStartStep \/ UploadProcessStep \/ UploadStoreStep \/ UploadReturnStep

SpecUpload == Init /\ [][UploadNext]_vars

----
(***************************************************************************)
(* _get_hf_model, one statement per step.  A model instance is the number  *)
(* of the load that made it.                                               *)
(***************************************************************************)
\* A thread constructs an EmbeddingService: __init__ calls _get_hf_model().
GetHfModelCall(t) ==
    /\ hf.pc[t] = "idle"
    /\ hf.calls < MaxCalls
    /\ hf' = [hf EXCEPT !.pc[t] = "test", !.calls = @ + 1, !.ret[t] = None]
    /\ UNCHANGED <<settings, storeVars, chunker, rag, llm, uploads, procs, solo>>

\* if _hf_model is None:
GetHfModelTest(t) ==
    /\ hf.pc[t] = "test"
    /\ hf' = [hf EXCEPT !.pc[t] = IF hf.model = None THEN "load" ELSE "return"]
    /\ UNCHANGED <<settings, storeVars, chunker, rag, llm, uploads, procs, solo>>

\* SentenceTransformer('all-MiniLM-L6-v2') builds a new instance
GetHfModelLoad(t) ==
    /\ hf.pc[t] = "load"
    /\ hf' = [hf EXCEPT !.pc[t] = "assign", !.loads = @ + 1,
                        !.ret[t] = Some(hf.loads + 1)]
    /\ UNCHANGED <<settings, storeVars, chunker, rag, llm, uploads, procs, solo>>

\* _hf_model = <the new instance>
GetHfModelAssign(t) ==
    /\ hf.pc[t] = "assign"
    /\ hf' = [hf EXCEPT !.pc[t] = "return", !.model = hf.ret[t]]
    /\ UNCHANGED <<settings, storeVars, chunker, rag, llm, uploads, procs, solo>>

\* return _hf_model
GetHfModelReturn(t) ==
    /\ hf.pc[t] = "return"
    /\ hf' = [hf EXCEPT !.pc[t] = "idle", !.ret[t] = hf.model,
                        !.returned = @ \cup {hf.model.val}]
    /\ UNCHANGED <<settings, storeVars, chunker, rag, llm, uploads, procs, solo>>

EmbedNext ==
    \/ \E t \in Threads : GetHfModelCall(t)
    \/ \E t \in Threads : GetHfModelTest(t)
    \/ \E t \in Threads : GetHfModelLoad(t)
    \/ \E t \in Threads : GetHfModelAssign(t)
    \/ \E t \in Threads : GetHfModelReturn(t)

SpecEmbed == Init /\ [][EmbedNext]_vars

\* C23: the embedding model is initialised at most once per process: in
\* every interleaving of the threads that call _get_hf_model the loader runs
\* at most once and every caller gets the same instance.
C23_ModelLoadedOnce ==
    /\ hf.loads <= 1
    /\ Cardinality(hf.returned) <= 1

----
(***************************************************************************)
(* Calls of two tenants on the one collection.  solo[u] is the collection  *)
(* the calls of tenant u alone would have made: every call of u is also    *)
(* applied to it.                                                          *)
(***************************************************************************)
\* The records of after that before did not hold so.
Written(before, after) ==
    [id \in {i \in DOMAIN after : i \notin DOMAIN before \/ before[i] # after[i]}
        |-> after[id]]

\* What a tenant can observe of a call.
Observed(op, raised, wrote, ret) ==
    [op |-> op, raised |-> raised, wrote |-> wrote, ret |-> ret]

\* A tenant stores the chunks of a file.
TenantStore ==
    /\ Idle
    /\ nOps < MaxOps
    /\ \E u \in Tenants, f \in Filenames, v \in Versions, n \in 1..MaxChunks :
        LET chunks     == ChunksWithMetadata(f, v, n, u)
            embeddings == EmbeddingLists(v, n)
            out        == StoreDocuments(collection, chroma, chunks, embeddings, u)
            alone      == StoreDocuments(solo[u], chroma, chunks, embeddings, u)
        IN  /\ collection' = out.coll
            /\ solo' = [solo EXCEPT ![u] = alone.coll]
            /\ last' = [op |-> "tenant_store", user_id |-> u,
                        actual |-> Observed("store", out.raised,
                                        Written(collection, out.coll), 0),
                        alone  |-> Observed("store", alone.raised,
                                        Written(solo[u], alone.coll), 0)]
    /\ nOps' = nOps + 1
    /\ UNCHANGED <<hf, settings, chroma, chunker, rag, llm, uploads, procs>>

\* A tenant searches, as the services do: with no filter_dict.
TenantSearch ==
    /\ Idle
    /\ nOps < MaxOps
    /\ \E u \in Tenants, q \in Vectors, top_k \in TopKArgs :
        last' = [op |-> "tenant_search", user_id |-> u,
                 actual |-> Observed("search", FALSE, <<>>,
                                Search(collection, settings, q, top_k, u, None)),
                 alone  |-> Observed("search", FALSE, <<>>,
                                Search(solo[u], settings, q, top_k, u, None))]
    /\ nOps' = nOps + 1
    /\ UNCHANGED <<hf, settings, chroma, collection, chunker, rag, llm, uploads,
                   procs, solo>>

\* A tenant deletes its records, or those of one file.
TenantDelete ==
    /\ Idle
    /\ nOps < MaxOps
    /\ \E u \in Tenants, filename \in FilenameArgs :
        LET out   == DeleteDocuments(collection, u, filename, "none")
            alone == DeleteDocuments(solo[u], u, filename, "none")
        IN  /\ collection' = out.coll
            /\ solo' = [solo EXCEPT ![u] = alone.coll]
            /\ last' = [op |-> "tenant_delete", user_id |-> u,
                        actual |-> Observed("delete", out.raised, <<>>, out.ret),
                        alone  |-> Observed("delete", alone.raised, <<>>, alone.ret)]
    /\ nOps' = nOps + 1
    /\ UNCHANGED <<hf, settings, chroma, chunker, rag, llm, uploads, procs>>

TenantsNext == TenantStore \/ TenantSearch \/ TenantDelete \/ Return

SpecTenants == Init /\ [][TenantsNext]_vars

\* C17: for any interleaving of store, search and delete calls of two
\* tenants, the records a tenant's search can return, the records its store
\* call writes and the counts its delete reports are what they would be had
\* the other tenant's calls not run.
C17_TenantsDoNotInterfere ==
    last.op \in {"tenant_store", "tenant_search", "tenant_delete"} =>
        last.actual = last.alone

----
(***************************************************************************)
(* Properties of a query.                                                  *)
(***************************************************************************)
\* C8: in every non-empty query response, the source with source_id k is the
\* retrieved chunk labelled [Source k - filename] in the context given to the
\* generator, for every ordering of the filenames in the retrieval result.
C8_SourceIdsMatchContext ==
    (rag.op = "query" /\ rag.response.some /\ rag.retrieved # <<>>) =>
        LET sources == rag.response.val.sources
        IN  \A i \in 1..Len(sources) : \A j \in 1..Len(rag.context) :
                (/\ rag.context[j].kind = "source"
                 /\ rag.context[j].source_counter = sources[i].source_id)
                => /\ rag.context[j].filename = sources[i].filename
                   /\ rag.context[j].text = rag.retrieved[i].text

\* C9: the relevance_score of the source of a retrieved chunk is 1 - distance
\* whenever the distance is defined, distance 0 included, and is null only
\* when the distance is undefined.
C9_RelevanceScoreOfDistance ==
    (rag.op = "query" /\ rag.response.some) =>
        LET sources == rag.response.val.sources
        IN  \A i \in 1..Len(sources) :
                IF rag.retrieved[i].distance.some
                THEN sources[i].relevance_score
                        = Some(1 - rag.retrieved[i].distance.val)
                ELSE sources[i].relevance_score = None

C11_EmptyRetrievalAnswers ==
    (rag.op = "query" /\ rag.retrieved = <<>>) =>
        LET analysis == rag.query_analysis.val
        IN  /\ ~rag.raised
            /\ rag.response.some
            /\ rag.response.val.sources = <<>>
            /\ rag.response.val.metadata.chunks_retrieved = 0
            /\ IF analysis.needs_explanation /\ analysis.key_terms # <<>>
               THEN /\ Len(rag.llm_calls) = 1
                    /\ rag.llm_calls[1].prompt.general_knowledge = rag.question
                    /\ rag.response.val.answer.kind =
                          IF rag.llm_ok THEN "generated"
                          ELSE "no_specific_information"
               ELSE /\ rag.llm_calls = <<>>
                    /\ rag.response.val.answer.kind = "no_relevant_information"

\* A question that needs an explanation and has key terms, nothing retrieved,
\* and the generator failing.
C11_Witness ==
    /\ rag.op = "query"
    /\ rag.retrieved = <<>>
    /\ rag.query_analysis.val.needs_explanation
    /\ rag.query_analysis.val.key_terms # <<>>
    /\ ~rag.llm_ok
    /\ rag.response.some
    /\ rag.response.val.answer.kind = "no_specific_information"

\* C12: in the non-empty query path the generator is called with temperature
\* 0.2 when the question is complex, 0.4 when it is not complex and the user
\* level is beginner, 0.3 otherwise; and with max tokens 2500 when
\* needs_explanation, else 2000 when complex, else 1500.
C12_TemperatureAndMaxTokens ==
    /\ \A is_complex \in BOOLEAN :
        \A user_level \in {"beginner", "intermediate", "expert"} :
            Temperature(is_complex, user_level) =
                IF is_complex THEN 2
                ELSE IF user_level = "beginner" THEN 4 ELSE 3
    /\ (rag.op = "query" /\ rag.retrieved # <<>>) =>
        LET analysis == rag.query_analysis.val
            complex  == \/ analysis.needs_explanation
                        \/ analysis.intent \in {"analytical", "explanatory", "calculative"}
                        \/ analysis.question_type \in {"why", "how"}
        IN  /\ Len(rag.llm_calls) = 1
            /\ rag.llm_calls[1].temperature =
                  IF complex THEN 2
                  ELSE IF analysis.user_level = "beginner" THEN 4 ELSE 3
            /\ rag.llm_calls[1].max_tokens =
                  IF analysis.needs_explanation THEN 2500
                  ELSE IF complex THEN 2000 ELSE 1500

\* A complex question that needs no explanation, answered from retrieved chunks.
C12_Witness ==
    /\ rag.op = "query"
    /\ rag.retrieved # <<>>
    /\ IsComplex(rag.query_analysis.val)
    /\ ~rag.query_analysis.val.needs_explanation
    /\ rag.llm_calls[1].temperature = 2
    /\ rag.llm_calls[1].max_tokens = 2000

----
(***************************************************************************)
(* Properties of the analysis of a question.                               *)
(***************************************************************************)
\* C21: the intent is that of the first keyword set with a hit, in the
\* order explanatory, analytical, calculative, comparative, factual, and
\* unknown when no set has a hit.
C21_IntentOfFirstKeywordSet ==
    rag.op = "analyze" =>
        LET hits == rag.matches.intents
        IN  rag.query_analysis.val.intent =
                IF "explanatory" \in hits THEN "explanatory"
                ELSE IF "analytical" \in hits THEN "analytical"
                ELSE IF "calculative" \in hits THEN "calculative"
                ELSE IF "comparative" \in hits THEN "comparative"
                ELSE IF "factual" \in hits THEN "factual"
                ELSE "unknown"

\* A question with "what is" and "calculate" analysed as explanatory.
C21_Witness ==
    /\ rag.op = "analyze"
    /\ rag.question = "What is the profit? Calculate it"
    /\ {"explanatory", "calculative"} \subseteq rag.matches.intents
    /\ rag.query_analysis.val.intent = "explanatory"

\* C22: the prompt carries exactly one template, chosen by priority:
\* explanation when the intent is explanatory or needs_explanation is set,
\* else analysis, calculation or factual by the intent, else the default;
\* the chain-of-thought block and a formatting block follow in every case.
C22_OneTemplateByPriority ==
    rag.op = "analyze" =>
        LET analysis == rag.query_analysis.val
        IN  /\ rag.prompt.instructions =
                    IF analysis.intent = "explanatory" \/ analysis.needs_explanation
                        THEN "explanation"
                    ELSE IF analysis.intent = "analytical" THEN "analysis"
                    ELSE IF analysis.intent = "calculative" THEN "calculation"
                    ELSE IF analysis.intent = "factual" THEN "factual"
                    ELSE "default"
            /\ rag.prompt.cot_instruction
            /\ rag.prompt.format_instruction \in {"sections", "concise"}

\* A calculative question that needs no explanation, with the calculation
\* template.
C22_Witness ==
    /\ rag.op = "analyze"
    /\ rag.question = "Calculate the profit margin ratio"
    /\ rag.query_analysis.val.intent = "calculative"
    /\ ~rag.query_analysis.val.needs_explanation
    /\ rag.prompt.instructions = "calculation"
    /\ rag.prompt.cot_instruction

\* C27: each of the temperature bands 0.2, 0.3 and 0.4 is used for some
\* analysis analyze_question can produce, and 0.4 for one with user level
\* beginner that is not complex: whenever an analysis can start, one with
\* each of these outcomes can.
C27_EveryTemperatureBandUsed ==
    Idle =>
        /\ \A band \in Temperatures :
                ENABLED (AnalyzeNext /\ rag'.op = "analyze" /\ rag'.temperature = band)
        /\ ENABLED (/\ AnalyzeNext
                    /\ rag'.op = "analyze"
                    /\ rag'.query_analysis.val.user_level = "beginner"
                    /\ ~IsComplex(rag'.query_analysis.val)
                    /\ rag'.temperature = 4)

\* C28: each of the five instruction templates is selected for some analysis
\* analyze_question can produce, and the analysis template for one with
\* intent analytical: whenever an analysis can start, one with each of these
\* outcomes can.
C28_EveryTemplateSelected ==
    Idle =>
        /\ \A template \in {"explanation", "analysis", "calculation", "factual", "default"} :
                ENABLED (/\ AnalyzeNext
                         /\ rag'.op = "analyze"
                         /\ rag'.prompt.instructions = template)
        /\ ENABLED (/\ AnalyzeNext
                    /\ rag'.op = "analyze"
                    /\ rag'.query_analysis.val.intent = "analytical"
                    /\ rag'.prompt.instructions = "analysis")

----
(***************************************************************************)
(* Properties of a decision-mode request.                                  *)
(***************************************************************************)
\* C13: a decision query always searches at width TOP_K_COMPLEX under the
\* caller's user_id, whatever the query and mode, and when chunks are
\* retrieved structured_data.chunks_analyzed is the number of chunks search
\* returned and structured_data.sources holds their filenames once each.
C13_DecisionSearchWidth ==
    (rag.op = "decision" /\ rag.mode \in ValidModes) =>
        /\ Len(rag.searches) = 1
        /\ rag.searches[1].top_k = Some(settings.TOP_K_COMPLEX)
        /\ rag.searches[1].user_id = rag.user_id
        /\ rag.searches[1].query = rag.query
        /\ (rag.retrieved # <<>> /\ rag.result.some) =>
            LET data == rag.result.val.structured_data.val
            IN  /\ data.chunks_analyzed = Len(rag.retrieved)
                /\ {data.sources[i] : i \in 1..Len(data.sources)}
                      = {rag.retrieved[i].metadata.filename :
                            i \in 1..Len(rag.retrieved)}
                /\ \A i, j \in 1..Len(data.sources) :
                      data.sources[i] = data.sources[j] => i = j

\* Three chunks of two files retrieved where TOP_K_RESULTS is smaller.
C13_Witness ==
    /\ rag.op = "decision"
    /\ settings.TOP_K_RESULTS < settings.TOP_K_COMPLEX
    /\ Len(rag.retrieved) = settings.TOP_K_COMPLEX
    /\ rag.result.some
    /\ rag.result.val.structured_data.val.chunks_analyzed = 3
    /\ Len(rag.result.val.structured_data.val.sources) = 2

\* C29: two different verified identities are never resolved to the same
\* tenant id: no token verified for another email address resolves to the
\* tenant id that serves a request with a verified identity.
C29_IdentitiesGetDistinctTenants ==
    (rag.op = "query" /\ rag.identity.some) =>
        \A token \in AuthTokens, user_id \in Tenants :
            LET other == VerifiedIdentity(token)
            IN  (other.some /\ other.val # rag.identity.val)
                    => RequestUserId(user_id, token).user_id # rag.user_id

\* C14: a decision-mode request whose mode is not one of risk_analysis,
\* revenue_analysis, clause_extraction, summary is rejected with a 400 before
\* any token verification, embedding, vector search or generator call.
C14_InvalidModeRejectedFirst ==
    (/\ rag.op = "decision"
     /\ rag.mode \notin {"risk_analysis", "revenue_analysis",
                         "clause_extraction", "summary"})
    => /\ rag.status = 400
       /\ rag.events = <<>>
       /\ rag.searches = <<>>
       /\ rag.llm_calls = <<>>
       /\ rag.response = None

\* An invalid mode sent with a token that would verify, by a tenant with records.
C14_Witness ==
    /\ rag.op = "decision"
    /\ rag.mode = "not_a_mode"
    /\ rag.token = Some("tok_a_b")
    /\ TenantIds(collection, "a_b") # {}
    /\ rag.status = 400

\* C19: a decision-mode request with a valid mode, for a tenant for which
\* search returns no chunks, answers successfully with the fixed
\* no-relevant-information result and null structured_data, without calling
\* the generator; it does not end in an error response.
C19_DecisionEmptyAnswers ==
    (rag.op = "decision" /\ rag.mode \in ValidModes /\ rag.retrieved = <<>>) =>
        /\ rag.llm_calls = <<>>
        /\ rag.status = 200
        /\ rag.response.some
        /\ rag.response.val.result.kind = "no_relevant_information"
        /\ rag.response.val.structured_data = None

\* The chunks in the order the query path's grouping gives them: file by
\* file in first-seen order, each file's chunks in retrieval order.
RECURSIVE GroupedChunks(_, _)
GroupedChunks(chunks, files) ==
    IF files = <<>> THEN <<>>
    ELSE FileChunks(chunks, Head(files)) \o GroupedChunks(chunks, Tail(files))

\* C20: the decision-mode context groups the retrieved chunks by filename by
\* the rule of the query path: the chunks of one document are contiguous,
\* documents appear in first-seen order, chunks inside a document keep
\* similarity order, and each chunk is labelled by its filename only.
C20_DecisionContextGrouped ==
    (rag.op = "decision" /\ rag.retrieved # <<>>) =>
        LET grouped == GroupedChunks(rag.retrieved, FileOrder(rag.retrieved))
        IN  rag.context = [i \in 1..Len(grouped) |->
                              [filename |-> grouped[i].metadata.filename,
                               text     |-> grouped[i].text]]

----
(***************************************************************************)
(* Properties of the upload route.                                         *)
(***************************************************************************)
\* C16: an upload with a disallowed extension or a size above the byte
\* ceiling is rejected with 400 before extraction, embedding or storing runs;
\* an upload whose pipeline raises at any step (extraction, chunking,
\* embedding, store) returns 500 with the temp file removed; in both cases
\* the vector store holds no record from that upload.
C16_UploadRejectsAndCleansUp ==
    [][\A w \in Workers :
        (procs[w].pc # "done" /\ procs'[w].pc = "done") =>
            LET me == procs'[w]
            IN  /\ (\/ Suffix(me.filename) \notin {".pdf", ".docx", ".txt"}
                    \/ me.size > MAX_FILE_SIZE)
                   => /\ me.status = 400
                      /\ me.events = <<>>
                      /\ uploads' = uploads
                /\ me.fault # "none"
                   => /\ me.status = 500
                      /\ me.filename \notin DOMAIN uploads'
                /\ me.status \in {400, 500}
                   => /\ collection' = collection
                      /\ ~me.wrote]_vars

\* A store call that fails while the collection holds records: the request is
\* answered 500 and its file is gone.
C16_Witness ==
    \E w \in Workers :
        /\ procs[w].pc = "done"
        /\ procs[w].fault = "store"
        /\ procs[w].status = 500
        /\ procs[w].filename \notin DOMAIN uploads
        /\ collection # <<>>

\* C18: when two uploads of the same document under the same tenant run
\* concurrently and write overlapping ids, both complete and the store ends
\* with one record per id, holding the content of the write applied last.
C18_ConcurrentUploadsLastWriteWins ==
    [][\A w, v \in Workers :
        (/\ w # v
         /\ procs[w].pc = "embedded"
         /\ procs'[w].pc = "done"
         /\ procs'[w].fault = "none"
         /\ procs[v].pc = "done"
         /\ procs[v].status = 200
         /\ w \in procs[v].during
         /\ procs[v].user_id = procs[w].user_id
         /\ procs[v].filename = procs[w].filename)
        => /\ procs'[w].status = 200
           /\ \A i \in 1..Len(procs[w].chunks) :
                LET id == ChunkId(procs[w].user_id, procs[w].chunks[i])
                IN  /\ id \in DOMAIN collection'
                    /\ collection'[id].document = procs[w].chunks[i].metadata.text
                    /\ collection'[id].embedding = procs[w].embeddings[i]]_vars

====
